---- MODULE Spec2Model ----
(***************************************************************************)
(* Job distribution and worker lifecycle coordinator of the automation     *)
(* master: the Job and Worker collections, the JobService operations and   *)
(* the HTTP routes that call them.                                         *)
(*                                                                         *)
(* A request handler is a sequence of database operations separated by     *)
(* awaits.  Each database operation is one atomic step; a handler in       *)
(* flight keeps the documents it has loaded (its snapshots) in its request *)
(* record.  Spec runs one handler at a time; SpecConc lets the handlers of *)
(* several requests interleave at their awaits.  SpecHeartbeat adds the     *)
(* heartbeat route (its in-memory registry and the clock) to the serial    *)
(* scheduler.  SpecCreate runs the creation interfaces (createJob, POST    *)
(* /jobs, createBatchJobs, createJobWithAI) on any input, SpecComplete     *)
(* applies Worker.completeJob to a fresh worker, and SpecLive puts the     *)
(* worker processes (polling timer and executeJob) next to the master,     *)
(* with weak fairness on every call in progress and on each timer.         *)
(* SpecPolling and SpecQueue start from a queue that already holds jobs:   *)
(* the first runs one worker process against it, the second the job-pull   *)
(* of both workers over jobs of different priorities.  SpecRetry runs the  *)
(* retry handler on jobs in every status, and SpecHealth the heartbeat     *)
(* route with the metrics it scores.                                       *)
(*                                                                         *)
(* Text is a sequence of parts; an optional value is a set with at most    *)
(* one element.                                                            *)
(*                                                                         *)
(* Document.save() writes the paths the handler modified, that is the      *)
(* fields whose value differs from the loaded snapshot.                    *)
(*                                                                         *)
(* The capacity condition of the worker queries is written in the source   *)
(* as  'resources.currentJobs': { $lt: '$capabilities.maxConcurrentJobs' } *)
(* and is read here as the field comparison it names.                      *)
(***************************************************************************)
EXTENDS Integers, Sequences, FiniteSets, TLC

\* ---------------------------------------------------------------- bounds
MaxJobs == 1
MaxTotal == 2
MaxTicks == 3
MaxRegistered == 2
MaxQuantity == 3
MaxCompletions == 10
MaxQueued == 3

Workers == {"w1", "w2"}
Reqs == {"r1", "r2"}
NoWorker == "none"
NoJob == 0

JobIds == 1..MaxJobs
\* the ids a request can carry: the stored workers and one id nobody registered
UnknownWorker == "w9"
WorkerIds == Workers \cup {UnknownWorker}
DefaultPriority == 5
\* priority: {min: 1, max: 10}
MinPriority == 1
MaxPriority == 10
\* a heartbeat older than this is stale (ms)
StaleAfter == 60000
\* the reporting interval the master hands to its workers (ms); the clock is
\* observed at its multiples
ReportingInterval == 30000
PrioritySet == {3, DefaultPriority}
\* the priority a creation request carries; 0 stands for none supplied
SuppliedPriority == {0, 3}
\* retryConfig of a new job
DefaultMaxRetries == 3
DefaultRetryDelay == 5000
JobTypes == {"single", "batch", "scheduled"}

JobStatus == {"pending", "queued", "running", "completed", "failed", "cancelled"}
WorkerStatus == {"online", "offline", "busy", "maintenance", "error"}
\* the statuses a worker process sends (MasterNodeClient.updateWorkerStatus callers)
ReportedStatus == {"online", "busy", "offline"}

\* ------------------------------------------------------------- rationals
RECURSIVE GCD(_, _)
GCD(a, b) == IF b = 0 THEN a ELSE GCD(b, a % b)

Rat(n, d) == IF n = 0 THEN <<0, 1>> ELSE <<n \div GCD(n, d), d \div GCD(n, d)>>
RatLess(a, b) == a[1] * b[2] < b[1] * a[2]

\* an average that weighs the new value as much as all the earlier ones
AverageWithLast(avg, n, x) == Rat(avg[1] + x * avg[2], avg[2] * 2)

\* (avg * (n - 1) + x) / n
RollingAverage(avg, n, x) == Rat(avg[1] * (n - 1) + x * avg[2], avg[2] * n)

\* ------------------------------------------------------------------ text
\* a string is the sequence of its parts; << >> is the empty string, which is
\* also what a field that was not supplied reads as
Blank == " "
Scheme == "https://"
Hosts == {"example.com"}
Placeholder == "{number}"
ValidName == <<"Job">>
ValidUrl == <<Scheme, "example.com">>

RECURSIVE TrimStart(_)
TrimStart(s) == IF s # << >> /\ Head(s) = Blank THEN TrimStart(Tail(s)) ELSE s

RECURSIVE TrimEnd(_)
TrimEnd(s) ==
  IF s # << >> /\ s[Len(s)] = Blank THEN TrimEnd(SubSeq(s, 1, Len(s) - 1)) ELSE s

\* the schema option trim: true
Trim(s) == TrimEnd(TrimStart(s))

\* new URL(v) does not throw: v is an absolute URL, a scheme followed by a host
ParsesAsUrl(v) == Len(v) >= 2 /\ v[1] = Scheme /\ v[2] \in Hosts

\* ------------------------------------------------------------- documents
WorkerDoc(id, st, cur, max, lo, hi, total, sr, avg) ==
  [identifier |-> id, status |-> st, currentJobs |-> cur, maxConcurrentJobs |-> max,
   priorityMin |-> lo, priorityMax |-> hi, totalJobsProcessed |-> total,
   successRate |-> sr, averageJobDuration |-> avg, lastSeen |-> 0]

NoDoc == WorkerDoc(NoWorker, "offline", 0, 0, 0, 0, 0, <<0, 1>>, <<0, 1>>)

\* stored workers: the schema defaults, and two workers with one job of history
\* the stored workers: both have one successful job of history; w1 accepts
\* every priority, w2 accepts priorities 5..10 only
StoredWorkers ==
  [w \in Workers |->
     IF w = "w1" THEN WorkerDoc("w1", "offline", 0, 2, 1, 10, 1, <<1, 1>>, <<3, 1>>)
                 ELSE WorkerDoc("w2", "offline", 0, 2, 5, 10, 1, <<1, 1>>, <<5, 1>>)]

JobDoc(st, prio, aw, att) ==
  [status |-> st, priority |-> prio, assignedWorker |-> aw, attempts |-> att,
   maxRetries |-> DefaultMaxRetries, retryDelay |-> DefaultRetryDelay,
   name |-> ValidName, url |-> ValidUrl, type |-> "single"]

NoJobDoc == JobDoc("pending", 0, NoWorker, 0)

\* an entry of the heartbeat route's workerRegistry
RegistryEntry(status, lastSeen) == [status |-> status, lastSeen |-> lastSeen]
NoEntry == [status |-> "none", lastSeen |-> 0]

\* an optional value: absent, or one value
Absent == {}
Some(x) == {x}
Get(o) == CHOOSE x \in o : TRUE

\* BatchJobCreationData.urlPattern, namePattern and variations.priorities
UrlPattern(type, urls, startNumber, pattern) ==
  [type |-> type, urls |-> urls, startNumber |-> startNumber, pattern |-> pattern]
NamePattern(type, prefix, suffix, customNames) ==
  [type |-> type, prefix |-> prefix, suffix |-> suffix, customNames |-> customNames]
NoUrlPattern == UrlPattern("absent", Absent, Absent, Absent)
NoNamePattern == NamePattern("absent", Absent, Absent, Absent)

\* a createBatchJobs call: its input, the lists it generated, the loop index
\* and its result so far
IdleBatch ==
  [pc |-> "idle", quantity |-> 0, urlPattern |-> NoUrlPattern,
   namePattern |-> NoNamePattern, priorities |-> Absent,
   urls |-> << >>, names |-> << >>, i |-> 0, createdJobs |-> << >>, errors |-> << >>]

\* what a createJobWithAI call came to: the job it stored, the number of steps
\* of the scenario generateScenario returned (-1: not called), whether the
\* scenario was saved with the job, and the error it threw
NoResult ==
  [called |-> FALSE, useAI |-> FALSE, job |-> NoJob, generated |-> -1,
   fallback |-> FALSE, attached |-> FALSE, error |-> "none"]

\* a worker process that executes nothing: no executeJob call in progress, an
\* empty activeJobs map
NoExecution == [calls |-> {}, activeJobs |-> {}]

\* a request: the handler's position and the documents it holds
IdleReq ==
  [pc |-> "idle", kind |-> "none", workerId |-> NoWorker, job |-> NoJob,
   jdoc |-> NoJobDoc, wdoc |-> NoDoc, error |-> "none"]

\* jobs, workers: the Job and Worker collections; reqs: the handlers in flight;
\* now: the clock (Date.now(), ms); workerRegistry: the heartbeat route's
\* in-memory Map; issued: the workers POST /workers has answered with;
\* calculated: the stats the heartbeat route computed last
\* batch: the createBatchJobs call in progress and its result; ai: the result of
\* the last createJobWithAI call; outcomes: the success flags completeJob has
\* been called with, in order; executing: the executeJob calls in progress in
\* each worker process
VARIABLES jobs, workers, reqs, now, workerRegistry, issued, calculated, batch, ai,
          outcomes, executing
heartbeatVars == <<now, workerRegistry, issued, calculated>>
serviceVars == <<batch, ai, outcomes, executing>>
vars == <<jobs, workers, reqs, now, workerRegistry, issued, calculated, batch, ai,
          outcomes, executing>>

Stored == DOMAIN jobs

\* ------------------------------------------------------- load and save
\* a loaded document, kept to the fields the handler goes on to read or write
Loaded(doc, blank, fields) ==
  [f \in DOMAIN doc |-> IF f \in fields THEN doc[f] ELSE blank[f]]


\* Document.save(): writes the fields that differ from the loaded document
Save(db, loaded, doc) ==
  [f \in DOMAIN db |-> IF doc[f] # loaded[f] THEN doc[f] ELSE db[f]]

\* ----------------------------------------------------------- Job methods
updateStatus(job, status) ==
  [job EXCEPT !.status = status,
              !.attempts = IF status = "running" THEN @ + 1 ELSE @]

\* -------------------------------------------------------- Worker methods
assignJob(w) ==
  LET cur == w.currentJobs + 1
  IN [w EXCEPT !.currentJobs = cur,
               !.status = IF cur >= w.maxConcurrentJobs THEN "busy" ELSE @]

completeJob(w, success, duration) ==
  LET cur == IF w.currentJobs - 1 > 0 THEN w.currentJobs - 1 ELSE 0
      totalJobs == w.totalJobsProcessed + 1
  IN [w EXCEPT !.currentJobs = cur,
               !.totalJobsProcessed = totalJobs,
               !.successRate = RollingAverage(@, totalJobs, IF success THEN 1 ELSE 0),
               !.averageJobDuration = RollingAverage(@, totalJobs, duration),
               !.status = IF cur < w.maxConcurrentJobs THEN "online" ELSE @]

Init ==
  /\ jobs = << >>
  /\ workers = StoredWorkers
  /\ reqs = [r \in Reqs |-> IdleReq]
  /\ now = 0
  /\ workerRegistry = [id \in WorkerIds |-> NoEntry]
  /\ issued = << >>
  /\ calculated = Absent
  /\ batch = IdleBatch
  /\ ai = NoResult
  /\ outcomes = << >>
  /\ executing = [w \in Workers |-> NoExecution]

\* --------------------------------------------------------------- queries
\* a capacity test that also admits a worker already at its capacity
HasCapacityInclusive(w) == w.currentJobs <= w.maxConcurrentJobs

\* 'resources.currentJobs': { $lt: capabilities.maxConcurrentJobs }
HasCapacity(w) == w.currentJobs < w.maxConcurrentJobs

InPriorityRange(w, priority) == w.priorityMin <= priority /\ priority <= w.priorityMax

\* Worker.findOne({identifier, status: 'online', currentJobs < max})
PinnedWorkerQuery(w) == w.status = "online" /\ HasCapacity(w)

\* a worker query without the status condition
AvailableWorkerQueryAnyStatus(w, priority) ==
  HasCapacity(w) /\ InPriorityRange(w, priority)

\* a worker query without the priority filter conditions
AvailableWorkerQueryAnyPriority(w, priority) ==
  w.status = "online" /\ HasCapacity(w)

\* Worker.find({status: 'online', currentJobs < max, priorityFilter.min <= p <= priorityFilter.max})
AvailableWorkerQuery(w, priority) ==
  w.status = "online" /\ HasCapacity(w) /\ InPriorityRange(w, priority)

\* a sort with the success rate ascending: {currentJobs: 1, successRate: 1, ...}
SortsBeforeLowestRate(a, b) ==
  \/ a.currentJobs < b.currentJobs
  \/ /\ a.currentJobs = b.currentJobs
     /\ \/ RatLess(a.successRate, b.successRate)
        \/ /\ a.successRate = b.successRate
           /\ RatLess(a.averageJobDuration, b.averageJobDuration)

\* sort({currentJobs: 1, successRate: -1, averageJobDuration: 1})
SortsBefore(a, b) ==
  \/ a.currentJobs < b.currentJobs
  \/ /\ a.currentJobs = b.currentJobs
     /\ \/ RatLess(b.successRate, a.successRate)
        \/ /\ a.successRate = b.successRate
           /\ RatLess(a.averageJobDuration, b.averageJobDuration)

\* availableWorkers[0]: documents that tie on every sort key come in any order
FirstAvailableWorkers(priority) ==
  LET found == {workers[w] : w \in {v \in Workers : AvailableWorkerQuery(workers[v], priority)}}
  IN {w \in found : \A v \in found : ~SortsBefore(v, w)}

\* Worker.findOne({identifier, status in [online, busy], currentJobs < max})
PollingWorkerQuery(w) == w.status \in {"online", "busy"} /\ HasCapacity(w)

\* Job.findOne({status: 'queued', assignedWorker absent or workerId, priority in range})
QueuedJobsFor(wdoc) ==
  {j \in Stored : /\ jobs[j].status = "queued"
                  /\ jobs[j].assignedWorker \in {NoWorker, wdoc.identifier}
                  /\ InPriorityRange(wdoc, jobs[j].priority)}

\* a sort by creation time alone
NextJobOldestFirst(S) == CHOOSE j \in S : \A k \in S : j <= k

\* .sort({priority: -1, 'metadata.createdAt': 1}); ids are in creation order
NextJob(S) ==
  CHOOSE j \in S : \A k \in S : \/ jobs[k].priority < jobs[j].priority
                                \/ (jobs[k].priority = jobs[j].priority /\ j <= k)

Quiet == \A r \in Reqs : reqs[r].pc = "idle"

\* ---------------------------------------------------------- Job validation
\* a validation that checks the name, the url's presence and the priority
ValidatesAnyUrl(job) ==
  /\ job.name # << >>
  /\ job.url # << >>
  /\ MinPriority <= job.priority /\ job.priority <= MaxPriority

\* Document.validate() of the Job schema: name and url required, the url
\* validator, priority min 1 max 10
Validates(job) ==
  /\ job.name # << >>
  /\ job.url # << >> /\ ParsesAsUrl(job.url)
  /\ MinPriority <= job.priority /\ job.priority <= MaxPriority

\* new Job({name, url, type, priority: jobData.priority || 5, config:
\* {retryConfig: {maxRetries: 3, retryDelay: 5000}, ...}}); name is trimmed
NewJob(name, url, type, priority) ==
  [JobDoc("pending", IF priority = 0 THEN DefaultPriority ELSE priority, NoWorker, 0)
     EXCEPT !.name = Trim(name), !.url = url, !.type = type]

\* ------------------------------------------------------ JobService.createJob
\* job = new Job({_id: nanoid(), priority: jobData.priority || 5, config:
\* {retryConfig: {maxRetries: 3, retryDelay: 5000}, ...}}); job.save(); a single
\* job is queued at once: queueJob loads the job by its id and saves it as
\* queued; createJob returns the document it built itself
createJob(r, name, url, type, priority) ==
  /\ reqs[r].pc = "idle"
  /\ Len(jobs) < MaxJobs
  /\ LET job == NewJob(name, url, type, priority)
     IN IF Validates(job)
        THEN /\ jobs' = Append(jobs, IF type = "single" THEN updateStatus(job, "queued")
                                                        ELSE job)
             /\ reqs' = [reqs EXCEPT ![r] =
                  [IdleReq EXCEPT !.pc = "done", !.kind = "create", !.job = Len(jobs) + 1,
                                  !.jdoc = job]]
        ELSE /\ jobs' = jobs
             /\ reqs' = [reqs EXCEPT ![r] =
                  [IdleReq EXCEPT !.pc = "done", !.kind = "create", !.jdoc = job,
                                  !.error = "ValidationError"]]
  /\ UNCHANGED workers
  /\ UNCHANGED <<heartbeatVars, serviceVars>>

\* JobService.queueJob: Job.findById, updateStatus('queued')
queueJob(j) ==
  /\ j \in Stored
  /\ jobs' = [jobs EXCEPT ![j] = updateStatus(@, "queued")]
  /\ UNCHANGED <<workers, reqs>>
  /\ UNCHANGED <<heartbeatVars, serviceVars>>

\* JobService.updateJob (PUT /jobs/{id}): Job.findByIdAndUpdate(jobId, {...updates})
updateJob(j, status, assignedWorker) ==
  /\ j \in Stored
  /\ jobs' = [jobs EXCEPT ![j].status = status,
                          ![j].assignedWorker = IF assignedWorker = NoWorker THEN @ ELSE assignedWorker]
  /\ UNCHANGED <<workers, reqs>>
  /\ UNCHANGED <<heartbeatVars, serviceVars>>

\* PUT /workers/{id}: Worker.findOneAndUpdate({identifier}, {...body,
\* 'connection.lastSeen': new Date()}); body = {status}
updateWorker(w, status) ==
  /\ workers' = [workers EXCEPT ![w].status = status, ![w].lastSeen = now]
  /\ UNCHANGED <<jobs, reqs>>
  /\ UNCHANGED <<heartbeatVars, serviceVars>>

\* ------------------------------------------- JobService.getNextJobForWorker
\* GET /jobs/next?workerId=w, first query: is the worker available
getNextJobForWorker(r, w) ==
  /\ reqs[r].pc = "idle"
  /\ reqs' = [reqs EXCEPT ![r] =
       IF w \in DOMAIN workers /\ PollingWorkerQuery(workers[w])
       THEN [IdleReq EXCEPT !.pc = "findJob", !.kind = "pull", !.workerId = w,
                            !.wdoc = Loaded(workers[w], NoDoc,
                                            {"identifier", "priorityMin", "priorityMax"})]
       ELSE [IdleReq EXCEPT !.pc = "done", !.kind = "pull", !.workerId = w]]
  /\ UNCHANGED <<jobs, workers>>
  /\ UNCHANGED <<heartbeatVars, serviceVars>>

\* second query: the next queued job for the worker; the route answers
\* {data: null} when there is none and calls assignJobToWorker otherwise
findNextJob(r) ==
  /\ reqs[r].pc = "findJob"
  /\ LET found == QueuedJobsFor(reqs[r].wdoc)
     IN reqs' = [reqs EXCEPT ![r] =
          IF found = {}
          THEN [@ EXCEPT !.pc = "done", !.wdoc = NoDoc]
          ELSE [@ EXCEPT !.pc = "findWorker", !.job = NextJob(found), !.wdoc = NoDoc]]
  /\ UNCHANGED <<jobs, workers>>
  /\ UNCHANGED <<heartbeatVars, serviceVars>>

\* --------------------------------------------- JobService.assignJobToWorker
\* assignJobToWorker(jobId, workerId?) called directly
assignJobToWorker(r, j, w) ==
  /\ reqs[r].pc = "idle"
  /\ j \in Stored
  /\ reqs' = [reqs EXCEPT ![r] =
       [IdleReq EXCEPT !.pc = "findWorker", !.kind = "assign", !.workerId = w, !.job = j]]
  /\ UNCHANGED <<jobs, workers>>
  /\ UNCHANGED <<heartbeatVars, serviceVars>>

\* Job.findById, then the pinned or the best available worker; null ends the call
findWorker(r) ==
  /\ reqs[r].pc = "findWorker"
  /\ LET j == reqs[r].job
         w == reqs[r].workerId
         found == IF w # NoWorker
                  THEN IF w \in DOMAIN workers /\ PinnedWorkerQuery(workers[w])
                       THEN {workers[w]} ELSE {}
                  ELSE FirstAvailableWorkers(jobs[j].priority)
     IN IF found = {}
        THEN reqs' = [reqs EXCEPT ![r].pc = "done"]
        ELSE \E worker \in found :
               reqs' = [reqs EXCEPT ![r].pc = "saveJob",
                          ![r].jdoc = Loaded(jobs[j], NoJobDoc, {"assignedWorker"}),
                          ![r].wdoc = Loaded(worker, NoDoc, {"identifier", "status",
                                             "currentJobs", "maxConcurrentJobs"})]
  /\ UNCHANGED <<jobs, workers>>
  /\ UNCHANGED <<heartbeatVars, serviceVars>>

\* job.assignedWorker = worker.identifier; job.save()
saveAssignedJob(r) ==
  /\ reqs[r].pc = "saveJob"
  /\ LET j == reqs[r].job
         job == [reqs[r].jdoc EXCEPT !.assignedWorker = reqs[r].wdoc.identifier]
     IN jobs' = [jobs EXCEPT ![j] = Save(@, reqs[r].jdoc, job)]
  /\ reqs' = [reqs EXCEPT ![r].pc = "saveWorker"]
  /\ UNCHANGED workers
  /\ UNCHANGED <<heartbeatVars, serviceVars>>

\* worker.assignJob()
saveAssignedWorker(r) ==
  /\ reqs[r].pc = "saveWorker"
  /\ LET worker == reqs[r].wdoc
     IN workers' = [workers EXCEPT ![worker.identifier] = Save(@, worker, assignJob(worker))]
  /\ reqs' = [reqs EXCEPT ![r].pc = "done"]
  /\ UNCHANGED jobs
  /\ UNCHANGED <<heartbeatVars, serviceVars>>

\* ------------------------------------------------------ JobService.cancelJob
\* cancels in flight that will release worker w
Releasing(w) ==
  {r \in Reqs : /\ reqs[r].kind = "cancel"
                /\ reqs[r].pc \in {"cancelStatus", "releaseWorker", "saveReleased"}
                /\ reqs[r].jdoc.assignedWorker = w}

\* DELETE /jobs/{id}: Job.findById
cancelJob(r, j) ==
  /\ reqs[r].pc = "idle"
  /\ j \in Stored
  /\ LET w == jobs[j].assignedWorker
     IN w # NoWorker =>
          workers[w].totalJobsProcessed + Cardinality(Releasing(w)) < MaxTotal
  /\ reqs' = [reqs EXCEPT ![r] =
       [IdleReq EXCEPT !.pc = "cancelStatus", !.kind = "cancel", !.job = j,
                       !.jdoc = Loaded(jobs[j], NoJobDoc, {"status", "assignedWorker"})]]
  /\ UNCHANGED <<jobs, workers>>
  /\ UNCHANGED <<heartbeatVars, serviceVars>>

\* job.updateStatus('cancelled')
cancelStatus(r) ==
  /\ reqs[r].pc = "cancelStatus"
  /\ LET j == reqs[r].job
     IN jobs' = [jobs EXCEPT ![j] = Save(@, reqs[r].jdoc, updateStatus(reqs[r].jdoc, "cancelled"))]
  /\ reqs' = [reqs EXCEPT ![r].pc =
       IF reqs[r].jdoc.assignedWorker # NoWorker THEN "releaseWorker" ELSE "done"]
  /\ UNCHANGED workers
  /\ UNCHANGED <<heartbeatVars, serviceVars>>

\* if (job.assignedWorker) Worker.findOne({identifier})
releaseWorker(r) ==
  /\ reqs[r].pc = "releaseWorker"
  /\ reqs' = [reqs EXCEPT ![r].pc = "saveReleased",
                          ![r].wdoc = workers[reqs[r].jdoc.assignedWorker]]
  /\ UNCHANGED <<jobs, workers>>
  /\ UNCHANGED <<heartbeatVars, serviceVars>>

\* worker.completeJob(false, 0)
saveReleased(r) ==
  /\ reqs[r].pc = "saveReleased"
  /\ LET worker == reqs[r].wdoc
     IN workers' = [workers EXCEPT ![worker.identifier] =
                      Save(@, worker, completeJob(worker, FALSE, 0))]
  /\ reqs' = [reqs EXCEPT ![r].pc = "done"]
  /\ UNCHANGED jobs
  /\ UNCHANGED <<heartbeatVars, serviceVars>>

\* ------------------------------------------------------- JobService.retryJob
\* a retry that resets the status and keeps the assignment
retryJobKeepsWorker(r, j) ==
  /\ reqs[r].pc = "idle"
  /\ j \in Stored
  /\ jobs[j].status = "failed"
  /\ jobs' = [jobs EXCEPT ![j].status = "pending"]
  /\ reqs' = [reqs EXCEPT ![r] = [IdleReq EXCEPT !.pc = "requeue", !.kind = "retry", !.job = j]]
  /\ UNCHANGED workers
  /\ UNCHANGED <<heartbeatVars, serviceVars>>

\* a retry that takes a cancelled job as well as a failed one
retryJobAlsoCancelled(r, j) ==
  /\ reqs[r].pc = "idle"
  /\ j \in Stored
  /\ jobs[j].status \in {"failed", "cancelled"}
  /\ jobs' = [jobs EXCEPT ![j].status = "pending", ![j].assignedWorker = NoWorker]
  /\ reqs' = [reqs EXCEPT ![r] = [IdleReq EXCEPT !.pc = "requeue", !.kind = "retry", !.job = j]]
  /\ UNCHANGED workers
  /\ UNCHANGED <<heartbeatVars, serviceVars>>

\* only a failed job: status = 'pending', assignedWorker and workerInfo cleared, save()
retryJob(r, j) ==
  /\ reqs[r].pc = "idle"
  /\ j \in Stored
  /\ jobs[j].status = "failed"
  /\ jobs' = [jobs EXCEPT ![j].status = "pending", ![j].assignedWorker = NoWorker]
  /\ reqs' = [reqs EXCEPT ![r] = [IdleReq EXCEPT !.pc = "requeue", !.kind = "retry", !.job = j]]
  /\ UNCHANGED workers
  /\ UNCHANGED <<heartbeatVars, serviceVars>>

\* if (!job || job.status !== 'failed') return false
retryJobRejected(r, j) ==
  /\ reqs[r].pc = "idle"
  /\ IF j \in Stored THEN jobs[j].status # "failed" ELSE TRUE
  /\ reqs' = [reqs EXCEPT ![r] =
       [IdleReq EXCEPT !.pc = "done", !.kind = "retryRejected", !.job = j]]
  /\ UNCHANGED <<jobs, workers>>
  /\ UNCHANGED <<heartbeatVars, serviceVars>>

\* this.queueJob(jobId)
requeue(r) ==
  /\ reqs[r].pc = "requeue"
  /\ jobs' = [jobs EXCEPT ![reqs[r].job] = updateStatus(@, "queued")]
  /\ reqs' = [reqs EXCEPT ![r].pc = "done"]
  /\ UNCHANGED workers
  /\ UNCHANGED <<heartbeatVars, serviceVars>>

\* the response is sent
respond(r) ==
  /\ reqs[r].pc = "done"
  /\ reqs' = [reqs EXCEPT ![r] = IdleReq]
  /\ UNCHANGED <<jobs, workers>>
  /\ UNCHANGED <<heartbeatVars, serviceVars>>

\* ------------------------------------------------------------ POST /jobs
\* the route answers 400 without a name or a url and for a url that new URL()
\* rejects; otherwise it calls createJob and answers 500 with the error's
\* message when createJob throws
postJob(r, name, url, type, priority) ==
  IF name = << >> \/ url = << >> \/ ~ParsesAsUrl(url)
  THEN /\ reqs[r].pc = "idle"
       /\ Len(jobs) < MaxJobs
       /\ reqs' = [reqs EXCEPT ![r] =
            [IdleReq EXCEPT !.pc = "done", !.kind = "create", !.error = "BadRequest"]]
       /\ UNCHANGED <<jobs, workers>>
       /\ UNCHANGED <<heartbeatVars, serviceVars>>
  ELSE createJob(r, name, url, type, priority)

\* JobService.updateJob (PUT /jobs/{id}) with updates = {priority}:
\* Job.findByIdAndUpdate(jobId, {priority}), which runs no validators
updateJobPriority(j, priority) ==
  /\ j \in Stored
  /\ jobs' = [jobs EXCEPT ![j].priority = priority]
  /\ UNCHANGED <<workers, reqs>>
  /\ UNCHANGED <<heartbeatVars, serviceVars>>

\* ------------------------------------------------ JobService.createBatchJobs
\* x || y for numbers and for strings: 0, '' and undefined give y
OrNumber(o, default) == IF o = Absent \/ o = Some(0) THEN default ELSE Get(o)
OrText(o, default) == IF o = Absent \/ o = Some(<< >>) THEN default ELSE Get(o)

\* String.prototype.replace(part, by): the first occurrence only
RECURSIVE Replace(_, _, _)
Replace(s, part, by) ==
  IF s = << >> THEN << >>
  ELSE IF Head(s) = part THEN <<by>> \o Tail(s)
       ELSE <<Head(s)>> \o Replace(Tail(s), part, by)

\* list[i % list.length] for the 0-based i; undefined (the empty string) when
\* the list is empty
Cycled(list, i) == IF list = << >> THEN << >> ELSE list[(i % Len(list)) + 1]

\* generateUrls(quantity, urlPattern, baseUrl); the i-th element here is
\* urls[i - 1] of the source
generateUrls(quantity, urlPattern, baseUrl) ==
  IF urlPattern.type \in {"absent", "sequential"}
  THEN LET startNum == OrNumber(urlPattern.startNumber, 1)
           pattern == OrText(urlPattern.pattern, baseUrl \o <<"?page=", Placeholder>>)
       IN [i \in 1..quantity |-> Replace(pattern, Placeholder, ToString(startNum + (i - 1)))]
  ELSE IF urlPattern.type = "list" /\ urlPattern.urls # Absent
       THEN [i \in 1..quantity |-> Cycled(Get(urlPattern.urls), i - 1)]
       ELSE [i \in 1..quantity |-> baseUrl]

\* generateNames that takes the custom names in order and stops at the last
generateNamesWithoutCycling(quantity, namePattern, baseName) ==
  IF namePattern.type \in {"absent", "sequential"}
  THEN LET prefix == OrText(namePattern.prefix, baseName)
           suffix == OrText(namePattern.suffix, << >>)
       IN [i \in 1..quantity |->
             prefix \o <<Blank, ToString(i)>> \o
               (IF suffix # << >> THEN <<Blank>> \o suffix ELSE << >>)]
  ELSE IF namePattern.type = "custom" /\ namePattern.customNames # Absent
       THEN [i \in 1..quantity |->
               IF i <= Len(Get(namePattern.customNames))
               THEN Get(namePattern.customNames)[i] ELSE << >>]
       ELSE [i \in 1..quantity |-> baseName \o <<Blank, ToString(i)>>]

\* generateNames(quantity, namePattern, baseName)
generateNames(quantity, namePattern, baseName) ==
  IF namePattern.type \in {"absent", "sequential"}
  THEN LET prefix == OrText(namePattern.prefix, baseName)
           suffix == OrText(namePattern.suffix, << >>)
       IN [i \in 1..quantity |->
             prefix \o <<Blank, ToString(i)>> \o
               (IF suffix # << >> THEN <<Blank>> \o suffix ELSE << >>)]
  ELSE IF namePattern.type = "custom" /\ namePattern.customNames # Absent
       THEN [i \in 1..quantity |-> Cycled(Get(namePattern.customNames), i - 1)]
       ELSE [i \in 1..quantity |-> baseName \o <<Blank, ToString(i)>>]

\* getVariation(variations, index, defaultValue)
getVariation(variations, index, defaultValue) ==
  IF variations = Absent \/ variations = Some(<< >>) THEN defaultValue
  ELSE Cycled(Get(variations), index)

\* no handler and no batch is running
Free == Quiet /\ batch.pc # "loop"

\* createBatchJobs(batchData): the urls and names are generated, then the loop
\* starts; baseJob is {name, url} with no priority
createBatchJobs(quantity, urlPattern, namePattern, priorities) ==
  /\ Free
  /\ Len(jobs) <= MaxJobs
  /\ batch' = [IdleBatch EXCEPT
       !.pc = "loop", !.quantity = quantity, !.urlPattern = urlPattern,
       !.namePattern = namePattern, !.priorities = priorities,
       !.urls = generateUrls(quantity, urlPattern, ValidUrl),
       !.names = generateNames(quantity, namePattern, ValidName)]
  /\ UNCHANGED <<jobs, workers, reqs, ai, outcomes, executing>>
  /\ UNCHANGED heartbeatVars

\* a loop that gives up at the first item createJob rejects
createBatchItemAborting ==
  /\ batch.pc = "loop"
  /\ batch.i < batch.quantity
  /\ LET i == batch.i
         job == NewJob(batch.names[i + 1], batch.urls[i + 1], "scheduled",
                       getVariation(batch.priorities, i, DefaultPriority))
     IN IF Validates(job)
        THEN /\ jobs' = Append(jobs, job)
             /\ batch' = [batch EXCEPT !.i = i + 1,
                                       !.createdJobs = Append(@, Len(jobs) + 1)]
        ELSE /\ jobs' = jobs
             /\ batch' = [batch EXCEPT !.i = batch.quantity, !.errors = Append(@, i + 1)]
  /\ UNCHANGED <<workers, reqs, ai, outcomes, executing>>
  /\ UNCHANGED heartbeatVars

\* one pass of the loop: createJob for item i of type scheduled; the job is
\* pushed to createdJobs, or the error createJob threw is pushed to errors
createBatchItem ==
  /\ batch.pc = "loop"
  /\ batch.i < batch.quantity
  /\ LET i == batch.i
         job == NewJob(batch.names[i + 1], batch.urls[i + 1], "scheduled",
                       getVariation(batch.priorities, i, DefaultPriority))
     IN IF Validates(job)
        THEN /\ jobs' = Append(jobs, job)
             /\ batch' = [batch EXCEPT !.i = i + 1,
                                       !.createdJobs = Append(@, Len(jobs) + 1)]
        ELSE /\ jobs' = jobs
             /\ batch' = [batch EXCEPT !.i = i + 1, !.errors = Append(@, i + 1)]
  /\ UNCHANGED <<workers, reqs, ai, outcomes, executing>>
  /\ UNCHANGED heartbeatVars

\* the loop has ended: {success, jobs: createdJobs, totalCreated, errors}
returnBatch ==
  /\ batch.pc = "loop"
  /\ batch.i = batch.quantity
  /\ batch' = [batch EXCEPT !.pc = "done"]
  /\ UNCHANGED <<jobs, workers, reqs, ai, outcomes, executing>>
  /\ UNCHANGED heartbeatVars

\* --------------------------------------------- AIScenarioService, createJobWithAI
\* the API keys of the environment, and what the upstream call came to: an
\* HTTP error, a response without choices, or a response whose content has no
\* JSON, JSON that does not parse, JSON without steps, or JSON with n steps
ApiKeys == SUBSET {"openai", "gemini"}
Upstream(kind, n) == [kind |-> kind, n |-> n]
PageTypes == {"homepage", "article", "product", "search", "general"}

\* selectBestProvider(): either provider when both keys are set
Providers(keys) ==
  IF keys = {"openai", "gemini"} THEN {"chatgpt", "gemini"}
  ELSE IF "openai" \in keys THEN {"chatgpt"} ELSE {"gemini"}

\* generateFallbackScenario: the number of steps it pushes
generateFallbackScenario(pageType, navigation) ==
  2 + (CASE pageType = "homepage" -> (IF navigation > 0 THEN 2 ELSE 1)
         [] pageType = "article" -> 2 * 3
         [] pageType = "product" -> 2
         [] pageType = "search" -> 1
         [] OTHER -> 1)

Scenario(steps, fallback) == [steps |-> steps, fallback |-> fallback]

\* generateWithChatGPT / generateWithGemini and parseAIResponse: every throw is
\* caught and answered with the fallback scenario; parsed JSON with a steps
\* array is returned with as many steps as it has
generateWithProvider(upstream, pageType, navigation) ==
  IF upstream.kind = "steps"
  THEN Scenario(upstream.n, FALSE)
  ELSE Scenario(generateFallbackScenario(pageType, navigation), TRUE)

\* generateScenario(pageContext, intent)
generateScenario(keys, provider, upstream, pageType, navigation) ==
  IF \/ provider = "chatgpt" /\ "openai" \in keys
     \/ provider = "gemini" /\ "gemini" \in keys
  THEN generateWithProvider(upstream, pageType, navigation)
  ELSE Scenario(generateFallbackScenario(pageType, navigation), TRUE)

\* the paths of config in the Job schema; a document keeps no other
SchemaConfigPaths == {"pageType", "scenario", "browserConfig", "retryConfig"}
\* enhancedConfig of createJobWithAI
EnhancedConfig == {"retryConfig", "browserConfig", "automationConfig"}
\* execution.logs.level enum
LogLevels == {"info", "warn", "error", "debug"}

\* the level createJobWithAI logs a failed generation with
FailureLogLevel == "warning"

\* job.addLog(level, ...): save() rejects a level outside the enum
addLogThrows(level) == level \notin LogLevels

\* JobService.createJobWithAI: the job is validated and saved; with useAI the
\* scenario is generated and written to job.config.automationConfig, a throw
\* in that block is caught and logged with addLog; a single job is queued
createJobWithAI(name, url, type, priority, useAI, keys, upstream) ==
  /\ Free
  /\ Len(jobs) < MaxJobs
  /\ \E provider \in Providers(keys) :
       LET job == NewJob(name, url, type, priority)
           config == EnhancedConfig \cap SchemaConfigPaths
           scenario == generateScenario(keys, provider, upstream, "general", 0)
           attached == "automationConfig" \in config
           thrown == useAI /\ ~attached /\ addLogThrows(FailureLogLevel)
           result == [NoResult EXCEPT !.called = TRUE, !.useAI = useAI]
       IN IF ~Validates(job)
          THEN /\ jobs' = jobs
               /\ ai' = [result EXCEPT !.error = "ValidationError"]
          ELSE /\ jobs' = Append(jobs, IF type = "single" /\ ~thrown
                                       THEN updateStatus(job, "queued") ELSE job)
               /\ ai' = [result EXCEPT
                    !.job = Len(jobs) + 1,
                    !.generated = IF useAI THEN scenario.steps ELSE -1,
                    !.fallback = useAI /\ scenario.fallback,
                    !.attached = useAI /\ attached,
                    !.error = IF thrown THEN "ValidationError" ELSE "none"]
  /\ UNCHANGED <<workers, reqs, batch, outcomes, executing>>
  /\ UNCHANGED heartbeatVars

\* ------------------------------------------------------ Worker.completeJob
\* a worker as the schema defaults make it: no job processed, rates 0
FreshWorker(w) == WorkerDoc(w, "offline", 0, 2, 1, 10, 0, <<0, 1>>, <<0, 1>>)

\* worker.completeJob(success, duration) on the stored worker w1
completes(success, duration) ==
  /\ Len(outcomes) < MaxCompletions
  /\ workers' = [workers EXCEPT !["w1"] = completeJob(@, success, duration)]
  /\ outcomes' = Append(outcomes, success)
  /\ UNCHANGED <<jobs, reqs, batch, ai, executing>>
  /\ UNCHANGED heartbeatVars

\* ------------------------------------------------------ the worker process
\* the request a worker's polling timer has in flight
Slot(w) == IF w = "w1" THEN "r1" ELSE "r2"

\* an executeJob call of a worker: the job and the position in the call
Execution(j, pc) == [job |-> j, pc |-> pc]

\* this.activeJobs, a map keyed by the job id
activeJobs(w) == executing[w].activeJobs

\* a tick of startJobPolling: nothing when the worker holds
\* maxConcurrentJobs active jobs, masterClient.getNextJob() otherwise
poll(w) ==
  /\ workers[w].status # "offline"
  /\ Cardinality(activeJobs(w)) < workers[w].maxConcurrentJobs
  /\ getNextJobForWorker(Slot(w), w)

\* the answer of GET /jobs/next reaches the worker: executeJob(job) is started,
\* and not awaited, when the answer holds a job
receive(w) ==
  /\ reqs[Slot(w)].pc = "done"
  /\ reqs[Slot(w)].kind = "pull"
  /\ reqs' = [reqs EXCEPT ![Slot(w)] = IdleReq]
  /\ executing' = [executing EXCEPT ![w].calls =
       IF reqs[Slot(w)].job = NoJob THEN @
       ELSE @ \cup {Execution(reqs[Slot(w)].job, "begin")}]
  /\ UNCHANGED <<jobs, workers, batch, ai, outcomes>>
  /\ UNCHANGED heartbeatVars

\* an executeJob that goes on to the browser without reporting the start
executeStartUnreported(w, e) ==
  /\ e \in executing[w].calls
  /\ e.pc = "start"
  /\ executing' = [executing EXCEPT
       ![w].calls = (@ \ {e}) \cup {Execution(e.job, "run")},
       ![w].activeJobs = @ \cup {e.job}]
  /\ UNCHANGED <<jobs, workers, reqs, batch, ai, outcomes>>
  /\ UNCHANGED heartbeatVars

\* executeJob: updateWorkerStatus("busy") if this is the first job
executeBegin(w, e) ==
  /\ e \in executing[w].calls
  /\ e.pc = "begin"
  /\ workers' = IF activeJobs(w) = {}
                THEN [workers EXCEPT ![w].status = "busy", ![w].lastSeen = now]
                ELSE workers
  /\ executing' = [executing EXCEPT ![w].calls = (@ \ {e}) \cup {Execution(e.job, "start")}]
  /\ UNCHANGED <<jobs, reqs, batch, ai, outcomes>>
  /\ UNCHANGED heartbeatVars

\* executeJob: reportJobStart(jobId), a PUT /jobs/{id} with status running and
\* assignedWorker; then activeJobs.set(jobId, ...)
executeStart(w, e) ==
  /\ e \in executing[w].calls
  /\ e.pc = "start"
  /\ jobs' = [jobs EXCEPT ![e.job].status = "running", ![e.job].assignedWorker = w]
  /\ executing' = [executing EXCEPT
       ![w].calls = (@ \ {e}) \cup {Execution(e.job, "run")},
       ![w].activeJobs = @ \cup {e.job}]
  /\ UNCHANGED <<workers, reqs, batch, ai, outcomes>>
  /\ UNCHANGED heartbeatVars

\* executeJob: the browser run ends; reportJobCompletion with the result, or
\* reportJobError after a throw
executeReport(w, e, success) ==
  /\ e \in executing[w].calls
  /\ e.pc = "run"
  /\ jobs' = [jobs EXCEPT ![e.job].status = IF success THEN "completed" ELSE "failed"]
  /\ executing' = [executing EXCEPT ![w].calls = (@ \ {e}) \cup {Execution(e.job, "finally")}]
  /\ UNCHANGED <<workers, reqs, batch, ai, outcomes>>
  /\ UNCHANGED heartbeatVars

\* executeJob, finally: activeJobs.delete(jobId), updateWorkerStatus("online")
\* if no job is active any more
executeFinally(w, e) ==
  /\ e \in executing[w].calls
  /\ e.pc = "finally"
  /\ executing' = [executing EXCEPT ![w].calls = @ \ {e}, ![w].activeJobs = @ \ {e.job}]
  /\ workers' = IF activeJobs(w) \ {e.job} = {}
                THEN [workers EXCEPT ![w].status = "online", ![w].lastSeen = now]
                ELSE workers
  /\ UNCHANGED <<jobs, reqs, batch, ai, outcomes>>
  /\ UNCHANGED heartbeatVars

\* ------------------------------------------------- heartbeats and registration
\* time passes
tick ==
  /\ now + ReportingInterval <= MaxTicks * ReportingInterval
  /\ now' = now + ReportingInterval
  /\ UNCHANGED <<jobs, workers, reqs, workerRegistry, issued, calculated>>
  /\ UNCHANGED serviceVars

\* POST /workers/{id}/heartbeat: workerRegistry.set(workerId, {...existingWorker,
\* status, lastSeen: new Date(), ...})
heartbeat(id, status) ==
  /\ workerRegistry' = [workerRegistry EXCEPT ![id] = RegistryEntry(status, now)]
  /\ UNCHANGED <<jobs, workers, reqs, now, issued, calculated>>
  /\ UNCHANGED serviceVars

\* a staleness test that starts at the threshold itself
IsStaleAtThreshold(worker) == now - worker.lastSeen >= StaleAfter

\* isStale = Date.now() - lastSeenMs > 60000
IsStale(worker) == now - worker.lastSeen > StaleAfter

\* GET /workers/{id}/heartbeat: 404 without an entry; a stale entry is marked
\* offline in the registry; the response carries worker.status
getWorkerStatus(r, id) ==
  /\ reqs[r].pc = "idle"
  /\ LET worker == workerRegistry[id]
         status == IF IsStale(worker) /\ worker.status # "offline"
                   THEN "offline" ELSE worker.status
     IN IF worker = NoEntry
        THEN /\ reqs' = [reqs EXCEPT ![r] =
                  [IdleReq EXCEPT !.pc = "done", !.kind = "status", !.workerId = id]]
             /\ UNCHANGED workerRegistry
        ELSE /\ workerRegistry' = [workerRegistry EXCEPT ![id].status = status]
             /\ reqs' = [reqs EXCEPT ![r] =
                  [IdleReq EXCEPT !.pc = "done", !.kind = "status", !.workerId = id,
                                  !.wdoc = [NoDoc EXCEPT !.identifier = id,
                                                         !.status = status]]]
  /\ UNCHANGED <<jobs, workers, now, issued, calculated>>
  /\ UNCHANGED serviceVars

\* the body of a heartbeat: status, metrics.cpuUsage and performance.successRate
\* in hundredths of a percent point, metrics.memoryUsage in MB
HeartbeatData(status, cpuUsage, memoryUsage, successRate) ==
  [status |-> status, cpuUsage |-> cpuUsage, memoryUsage |-> memoryUsage,
   successRate |-> successRate]

\* Math.round of a number given in hundredths: the nearest integer, halves up
Round(hundredths) == (hundredths + 50) \div 100

\* the score before the connectivity impact, in hundredths: 100 less the cpu
\* penalty (2 per point above 80), the memory penalty (0.01 per MB above 3000)
\* and the success rate penalty (2 per point below 95; a rate of 0 counts as 100)
ResourceScore(worker) ==
  LET cpuPenalty == IF worker.cpuUsage > 8000 THEN (worker.cpuUsage - 8000) * 2 ELSE 0
      memoryPenalty == IF worker.memoryUsage > 3000 THEN worker.memoryUsage - 3000 ELSE 0
      successRate == IF worker.successRate = 0 THEN 10000 ELSE worker.successRate
      ratePenalty == IF successRate < 9500 THEN (9500 - successRate) * 2 ELSE 0
  IN 10000 - cpuPenalty - memoryPenalty - ratePenalty

\* a score that is rounded and not clamped
calculateHealthScoreUnclamped(worker) ==
  Round(IF worker.status = "offline" THEN 0
        ELSE IF worker.status = "online" THEN ResourceScore(worker) + 1000
        ELSE ResourceScore(worker))

\* offline: 0; online: 10 more; Math.max(0, Math.min(100, Math.round(score)))
calculateHealthScore(worker) ==
  LET score == IF worker.status = "offline" THEN 0
               ELSE IF worker.status = "online" THEN ResourceScore(worker) + 1000
               ELSE ResourceScore(worker)
      rounded == Round(score)
  IN IF rounded > 100 THEN 100 ELSE IF rounded < 0 THEN 0 ELSE rounded

\* calculateWorkerStats: the healthScore of the answer, next to what it was
\* computed from
calculateWorkerStats(worker) ==
  [worker |-> worker, healthScore |-> calculateHealthScore(worker)]

\* POST /workers/{id}/heartbeat with its metrics: the registry entry is replaced
\* and the answer carries calculated: calculateWorkerStats(updatedWorker)
postHeartbeat(id, data) ==
  /\ workerRegistry' = [workerRegistry EXCEPT ![id] = RegistryEntry(data.status, now)]
  /\ calculated' = Some(calculateWorkerStats(data))
  /\ UNCHANGED <<jobs, workers, reqs, now, issued>>
  /\ UNCHANGED serviceVars

\* `wn-${Date.now().toString().slice(-6)}`: the last six digits of the clock
Identifier(t) == t % 1000000

\* POST /workers: answers with a new worker made from the request; nothing is stored
registerWorker ==
  /\ Len(issued) < MaxRegistered
  /\ issued' = Append(issued, [identifier |-> Identifier(now), status |-> "online",
                               currentJobs |-> 0, totalJobsProcessed |-> 0])
  /\ UNCHANGED <<jobs, workers, reqs, now, workerRegistry, calculated>>
  /\ UNCHANGED serviceVars

\* ------------------------------------------------------------ specification
\* a new request takes the first free handler slot of R
FreeSlot(R, r) ==
  /\ r \in R
  /\ reqs[r].pc = "idle"
  /\ (r = "r2" /\ "r1" \in R) => reqs["r1"].pc # "idle"

\* a single-operation request is served between handlers when the server takes
\* one request at a time (one slot), and at any moment otherwise
Ready(R) == R = Reqs \/ Quiet

\* GET /jobs/next?workerId=
Pulls(R) == \E r \in Reqs, w \in Workers : FreeSlot(R, r) /\ getNextJobForWorker(r, w)

\* assignJobToWorker(jobId) and assignJobToWorker(jobId, workerId)
Assigns(R) ==
  \E r \in Reqs, j \in JobIds, w \in Workers \cup {NoWorker} :
    FreeSlot(R, r) /\ assignJobToWorker(r, j, w)

\* DELETE /jobs/{id}
Cancels(R) == \E r \in Reqs, j \in JobIds : FreeSlot(R, r) /\ cancelJob(r, j)

Retries(R) == \E r \in Reqs, j \in JobIds : FreeSlot(R, r) /\ retryJob(r, j)

\* POST /jobs
Creates(R) ==
  \E r \in Reqs, type \in JobTypes, priority \in SuppliedPriority :
    FreeSlot(R, r) /\ createJob(r, ValidName, ValidUrl, type, priority)

Queues(R) == \E j \in JobIds : Ready(R) /\ queueJob(j)

\* PUT /jobs/{id} with any status
Updates(R) == \E j \in JobIds, status \in JobStatus : Ready(R) /\ updateJob(j, status, NoWorker)

\* PUT /jobs/{id} from a worker: MasterNodeClient.reportJobStart
StartReports(R) == \E j \in JobIds, w \in Workers : Ready(R) /\ updateJob(j, "running", w)

\* PUT /jobs/{id} from a worker: MasterNodeClient.reportJobCompletion, reportJobError
EndReports(R) ==
  \E j \in JobIds, status \in {"completed", "failed"} :
    Ready(R) /\ updateJob(j, status, NoWorker)

\* PUT /workers/{id} from a worker: MasterNodeClient.updateWorkerStatus
StatusReports(R) ==
  \E w \in Workers, status \in ReportedStatus : Ready(R) /\ updateWorker(w, status)

\* GET /jobs/next with an id that is not a stored worker
UnknownPulls(R) == \E r \in Reqs : FreeSlot(R, r) /\ getNextJobForWorker(r, UnknownWorker)

\* the ids that send heartbeats: a stored worker and the unregistered id
Reporters == {"w1", UnknownWorker}

\* POST /workers/{id}/heartbeat
Heartbeats(R) ==
  \E id \in Reporters, status \in ReportedStatus : Ready(R) /\ heartbeat(id, status)

\* GET /workers/{id}/heartbeat
StatusQueries(R) == \E r \in Reqs, id \in WorkerIds : FreeSlot(R, r) /\ getWorkerStatus(r, id)

\* POST /workers
Registers(R) == Ready(R) /\ registerWorker

Step ==
  \/ \E r \in Reqs : findNextJob(r)
  \/ \E r \in Reqs : findWorker(r)
  \/ \E r \in Reqs : saveAssignedJob(r)
  \/ \E r \in Reqs : saveAssignedWorker(r)
  \/ \E r \in Reqs : cancelStatus(r)
  \/ \E r \in Reqs : releaseWorker(r)
  \/ \E r \in Reqs : saveReleased(r)
  \/ \E r \in Reqs : respond(r)

\* one request at a time: a handler runs to its response before the next begins
Serial == {"r1"}
Next ==
  \/ Creates(Serial) \/ Queues(Serial) \/ Updates(Serial) \/ StartReports(Serial)
  \/ StatusReports(Serial) \/ Registers(Serial)
  \/ Pulls(Serial) \/ Assigns(Serial) \/ Cancels(Serial) \/ Retries(Serial)
  \/ Step
  \/ \E r \in Reqs : requeue(r)
Spec == Init /\ [][Next]_vars

\* the handlers of two requests interleave at their awaits, while jobs are
\* created and workers send their reports; the requests are the ones the routes
\* make: job-pull (the caller of assignJobToWorker) and cancel
NextConc ==
  \/ \E r \in Reqs : FreeSlot(Reqs, r) /\ createJob(r, ValidName, ValidUrl, "single", DefaultPriority)
  \/ \E w \in Workers : Ready(Reqs) /\ updateWorker(w, "online")
  \/ StartReports(Reqs) \/ EndReports(Reqs)
  \/ Pulls(Reqs) \/ Cancels(Reqs)
  \/ Step
SpecConc == Init /\ [][NextConc]_vars

\* the steps of the job-pull and assignment handlers
AssignmentStep ==
  \/ \E r \in Reqs : findNextJob(r)
  \/ \E r \in Reqs : findWorker(r)
  \/ \E r \in Reqs : saveAssignedJob(r)
  \/ \E r \in Reqs : saveAssignedWorker(r)
  \/ \E r \in Reqs : respond(r)

\* the master with its workers' heartbeats and status queries, one request at a
\* time, while the clock advances
NextHeartbeat ==
  \/ Ready(Serial) /\ tick
  \/ Heartbeats(Serial) \/ StatusQueries(Serial)
  \/ \E r \in Reqs : FreeSlot(Serial, r) /\ createJob(r, ValidName, ValidUrl, "single", DefaultPriority)
  \/ \E w \in Workers : Ready(Serial) /\ updateWorker(w, "online")
  \/ Pulls(Serial) \/ UnknownPulls(Serial) \/ Assigns(Serial)
  \/ AssignmentStep
SpecHeartbeat == Init /\ [][NextHeartbeat]_vars

\* ------------------------------------------------- the creation interfaces
\* what a creation request can carry: a missing, a blank and a proper name; a
\* missing, a malformed (no scheme) and a proper url; no priority, a priority
\* in range and one out of range on either side
MalformedUrl == <<"example.com">>
NewsUrl == <<Scheme, "example.com", "/news">>
Names == {<< >>, <<Blank>>, ValidName}
Urls == {<< >>, MalformedUrl, ValidUrl}
RequestedPriority == {-1, 0, 3, 11}
\* the priority a PUT /jobs/{id} body can carry
UpdatedPriority == {0, 7, 11}

PagePattern == <<Scheme, "example.com", "/page-", Placeholder>>
UrlPatterns ==
  {NoUrlPattern, UrlPattern("pattern", Absent, Absent, Some(PagePattern))}
  \cup {UrlPattern("sequential", Absent, start, pattern) :
          start \in {Absent, Some(0), Some(1), Some(2)},
          pattern \in {Absent, Some(PagePattern)}}
  \cup {UrlPattern("list", urls, Absent, Absent) :
          urls \in {Absent, Some(<< >>), Some(<<ValidUrl, NewsUrl>>),
                    Some(<<ValidUrl, MalformedUrl>>)}}
NamePatterns ==
  {NoNamePattern}
  \cup {NamePattern("sequential", prefix, suffix, Absent) :
          prefix \in {Absent, Some(<<"Page">>)}, suffix \in {Absent, Some(<<"Check">>)}}
  \cup {NamePattern("custom", Absent, Absent, names) :
          names \in {Absent, Some(<<<<"First">>, <<"Second">>>>),
                     Some(<<<<"First">>, << >>>>)}}
PriorityVariations == {Absent, Some(<<3, 11>>)}

Upstreams ==
  {Upstream(kind, 0) : kind \in {"httpError", "noChoices", "noJson", "badJson", "noSteps"}}
  \cup {Upstream("steps", n) : n \in 0..2}

\* JobService.createJob called with any input
CreateRequests ==
  /\ Free /\ Len(jobs) < MaxJobs
  /\ \E r \in Serial, name \in Names, url \in Urls, type \in JobTypes,
        priority \in RequestedPriority :
       createJob(r, name, url, type, priority)

\* POST /jobs
PostRequests ==
  /\ Free /\ Len(jobs) < MaxJobs
  /\ \E r \in Serial, name \in Names, url \in Urls, type \in JobTypes,
        priority \in RequestedPriority :
       postJob(r, name, url, type, priority)

\* PUT /jobs/{id} with a priority
PriorityUpdates ==
  /\ Free
  /\ \E j \in JobIds, priority \in UpdatedPriority : updateJobPriority(j, priority)

\* POST /jobs/batch, once
BatchRequests ==
  /\ Free /\ batch.pc = "idle" /\ ~ai.called /\ Len(jobs) <= MaxJobs
  /\ \E quantity \in 0..MaxQuantity, urlPattern \in UrlPatterns,
        namePattern \in NamePatterns, priorities \in PriorityVariations :
       createBatchJobs(quantity, urlPattern, namePattern, priorities)

\* POST /jobs/ai, once
AIRequests ==
  /\ Free /\ batch.pc = "idle" /\ ~ai.called /\ Len(jobs) < MaxJobs
  /\ \E name \in Names, url \in Urls, type \in JobTypes, useAI \in BOOLEAN,
        keys \in ApiKeys, upstream \in Upstreams :
       createJobWithAI(name, url, type, 0, useAI, keys, upstream)

\* the creation interfaces of the master, one call at a time
NextCreate ==
  \/ CreateRequests \/ PostRequests \/ PriorityUpdates
  \/ BatchRequests \/ createBatchItem \/ returnBatch
  \/ AIRequests
  \/ \E r \in Reqs : respond(r)
SpecCreate == Init /\ [][NextCreate]_vars

\* ------------------------------------------------ a worker's completions
Durations == {0, 5000}
InitFresh ==
  /\ jobs = << >>
  /\ workers = [w \in Workers |-> FreshWorker(w)]
  /\ reqs = [r \in Reqs |-> IdleReq]
  /\ now = 0
  /\ workerRegistry = [id \in WorkerIds |-> NoEntry]
  /\ issued = << >>
  /\ calculated = Absent
  /\ batch = IdleBatch
  /\ ai = NoResult
  /\ outcomes = << >>
  /\ executing = [w \in Workers |-> NoExecution]

\* completeJob called again and again on a new worker
NextComplete == \E success \in BOOLEAN, duration \in Durations : completes(success, duration)
SpecComplete == InitFresh /\ [][NextComplete]_vars

\* the master, the worker processes and their polling timers: jobs are created,
\* the workers come online, poll, and execute what they are handed
Priorities == {3, 7}
LiveCreates ==
  \E r \in Reqs, priority \in Priorities :
    createJob(r, ValidName, ValidUrl, "single", priority)
LiveStarts == \E w \in Workers : workers[w].status = "offline" /\ updateWorker(w, "online")
LiveResponds == \E r \in Reqs : reqs[r].kind = "create" /\ respond(r)
LivePull ==
  \/ \E r \in Reqs : findNextJob(r)
  \/ \E r \in Reqs : findWorker(r)
  \/ \E r \in Reqs : saveAssignedJob(r)
  \/ \E r \in Reqs : saveAssignedWorker(r)
LiveReceives == \E w \in Workers : receive(w)
LiveExecutes ==
  \/ \E w \in Workers : \E e \in executing[w].calls : executeBegin(w, e)
  \/ \E w \in Workers : \E e \in executing[w].calls : executeStart(w, e)
  \/ \E w \in Workers : \E e \in executing[w].calls, success \in BOOLEAN :
       executeReport(w, e, success)
  \/ \E w \in Workers : \E e \in executing[w].calls : executeFinally(w, e)
NextLive ==
  \/ LiveCreates \/ LiveStarts \/ LiveResponds
  \/ poll("w1") \/ poll("w2")
  \/ LivePull \/ LiveReceives \/ LiveExecutes

\* the master serves every request it has accepted, a worker process goes on
\* with every call it has started, and each polling timer keeps firing
Served(r) ==
  \/ findNextJob(r) \/ findWorker(r) \/ saveAssignedJob(r) \/ saveAssignedWorker(r)
  \/ reqs[r].kind = "create" /\ respond(r)
Fairness ==
  /\ \A r \in Reqs : WF_vars(Served(r))
  /\ \A w \in Workers :
       /\ WF_vars(poll(w))
       /\ WF_vars(receive(w))
       /\ WF_vars(\E e \in executing[w].calls : executeBegin(w, e))
       /\ WF_vars(\E e \in executing[w].calls : executeStart(w, e))
       /\ WF_vars(\E e \in executing[w].calls, success \in BOOLEAN :
                    executeReport(w, e, success))
       /\ WF_vars(\E e \in executing[w].calls : executeFinally(w, e))
SpecLive == Init /\ [][NextLive]_vars /\ Fairness

\* one worker process and the master, with MaxQueued single jobs already
\* created and queued: the polling timer of w1, the job-pull handler and the
\* executeJob calls of w1
InitPolling ==
  /\ jobs = [j \in 1..MaxQueued |->
               updateStatus(NewJob(ValidName, ValidUrl, "single", DefaultPriority), "queued")]
  /\ workers = [StoredWorkers EXCEPT !["w1"].status = "online"]
  /\ reqs = [r \in Reqs |-> IdleReq]
  /\ now = 0
  /\ workerRegistry = [id \in WorkerIds |-> NoEntry]
  /\ issued = << >>
  /\ calculated = Absent
  /\ batch = IdleBatch
  /\ ai = NoResult
  /\ outcomes = << >>
  /\ executing = [w \in Workers |-> NoExecution]
NextPolling ==
  \/ poll("w1")
  \/ findNextJob(Slot("w1")) \/ findWorker(Slot("w1"))
  \/ saveAssignedJob(Slot("w1")) \/ saveAssignedWorker(Slot("w1"))
  \/ receive("w1")
  \/ \E e \in executing["w1"].calls : executeBegin("w1", e)
  \/ \E e \in executing["w1"].calls : executeStart("w1", e)
  \/ \E e \in executing["w1"].calls, success \in BOOLEAN : executeReport("w1", e, success)
  \/ \E e \in executing["w1"].calls : executeFinally("w1", e)
SpecPolling == InitPolling /\ [][NextPolling]_vars

\* the job-pull over a queue that holds MaxQueued jobs of different priorities,
\* unassigned or already assigned to w2, in creation order; both workers are
\* online and report the start of jobs
QueuedDocs ==
  {[updateStatus(NewJob(ValidName, ValidUrl, "single", p), "queued")
      EXCEPT !.assignedWorker = aw] : p \in Priorities, aw \in {NoWorker, "w2"}}
InitQueue ==
  /\ jobs \in [1..MaxQueued -> QueuedDocs]
  /\ workers = [w \in Workers |-> [StoredWorkers[w] EXCEPT !.status = "online"]]
  /\ reqs = [r \in Reqs |-> IdleReq]
  /\ now = 0
  /\ workerRegistry = [id \in WorkerIds |-> NoEntry]
  /\ issued = << >>
  /\ calculated = Absent
  /\ batch = IdleBatch
  /\ ai = NoResult
  /\ outcomes = << >>
  /\ executing = [w \in Workers |-> NoExecution]
NextQueue ==
  \/ Pulls(Serial)
  \/ AssignmentStep
  \/ \E r \in Reqs : respond(r)
  \/ \E j \in Stored, w \in Workers : Ready(Serial) /\ updateJob(j, "running", w)
SpecQueue == InitQueue /\ [][NextQueue]_vars

\* the retry handler next to the requests that give a job each of its statuses
\* and an assigned worker, one request at a time; retries arrive for every job
\* id, stored or not
RejectedRetries(R) ==
  \E r \in Reqs, j \in 1..MaxJobs + 1 : FreeSlot(R, r) /\ retryJobRejected(r, j)
NextRetry ==
  \/ \E r \in Reqs : FreeSlot(Serial, r) /\ createJob(r, ValidName, ValidUrl, "single", DefaultPriority)
  \/ Updates(Serial) \/ StartReports(Serial) \/ StatusReports(Serial)
  \/ Pulls(Serial) \/ AssignmentStep
  \/ Retries(Serial) \/ RejectedRetries(Serial)
  \/ \E r \in Reqs : requeue(r)
  \/ \E r \in Reqs : respond(r)
SpecRetry == Init /\ [][NextRetry]_vars

\* heartbeats that carry metrics: no load, load at the thresholds, just above
\* them (a penalty of half a point) and far above them, from a worker in each
\* status it can report
CpuUsages == {0, 8000, 8025, 10000}
MemoryUsages == {1842, 3000, 3050, 20000}
SuccessRates == {0, 5000, 9475, 9820, 10000}
HeartbeatDatas ==
  {HeartbeatData(status, cpu, memory, rate) :
     status \in ReportedStatus, cpu \in CpuUsages, memory \in MemoryUsages,
     rate \in SuccessRates}
NextHealth == \E data \in HeartbeatDatas : postHeartbeat("w1", data)
SpecHealth == Init /\ [][NextHealth]_vars

TypeOK ==
  /\ \A j \in Stored : jobs[j].status \in JobStatus /\ jobs[j].assignedWorker \in Workers \cup {NoWorker}
  /\ \A w \in Workers : workers[w].status \in WorkerStatus /\ workers[w].identifier = w

\* ================================================================= claims
\* the transition graph of a job's status
TransitionGraph ==
  { <<"pending", "queued">>, <<"queued", "running">>,
    <<"running", "completed">>, <<"running", "failed">>,
    <<"pending", "cancelled">>, <<"queued", "cancelled">>, <<"running", "cancelled">>,
    <<"failed", "pending">> }

\* a worker that may be given a job of this priority
Eligible(w, priority) ==
  /\ w.status = "online"
  /\ w.currentJobs < w.maxConcurrentJobs
  /\ w.priorityMin <= priority /\ priority <= w.priorityMax

\* request r has just chosen a worker for its job
Selects(r) == reqs[r].pc = "findWorker" /\ reqs'[r].pc = "saveJob"
Selected(r) == workers[reqs'[r].wdoc.identifier]

\* C1: under every interleaving of job-pulls, cancellations and the workers'
\* reports, each worker's currentJobs stays within 0 .. maxConcurrentJobs
C1_CapacityInvariant ==
  \A w \in Workers :
    0 <= workers[w].currentJobs /\ workers[w].currentJobs <= workers[w].maxConcurrentJobs

\* an assignment is about to write a worker's counter while another request has
\* already brought that worker to its capacity
C1_Witness ==
  \E r \in Reqs :
    /\ reqs[r].pc = "saveWorker"
    /\ workers[reqs[r].wdoc.identifier].currentJobs =
         workers[reqs[r].wdoc.identifier].maxConcurrentJobs

\* C2: two job-pulls of different workers for the same job never both end with
\* the job assigned and handed out: one of them wins
C2_OneWinner ==
  \A r1, r2 \in Reqs :
    ( /\ r1 # r2
      /\ reqs[r1].kind = "pull" /\ reqs[r2].kind = "pull"
      /\ reqs[r1].pc = "done" /\ reqs[r2].pc = "done"
      /\ reqs[r1].job # NoJob /\ reqs[r1].job = reqs[r2].job
      /\ reqs[r1].workerId # reqs[r2].workerId )
    => ~ ( /\ reqs[r1].wdoc.identifier = reqs[r1].workerId
           /\ reqs[r2].wdoc.identifier = reqs[r2].workerId )

\* C3: every change of a job's status is an edge of the transition graph
C3_LegalTransitions ==
  [][\A j \in Stored :
       jobs'[j].status # jobs[j].status =>
         <<jobs[j].status, jobs'[j].status>> \in TransitionGraph]_vars

\* C4: an update that asks for a status that is not an edge from the job's
\* status leaves the job as it was
C4_IllegalUpdateRejected ==
  [][\A j \in Stored, status \in JobStatus :
       ( /\ <<jobs[j].status, status>> \notin TransitionGraph
         /\ updateJob(j, status, NoWorker) )
       => jobs'[j] = jobs[j]]_vars

\* C5: a job-pull by an online worker with spare capacity that returns a job
\* leaves the job running, assigned to that worker, and the worker's currentJobs
\* one higher; a job-pull that returns null changes nothing
C5_PullAssignsAndStarts ==
  [][\A r \in Reqs :
       ( /\ reqs[r].kind = "pull"
         /\ reqs[r].pc # "done" /\ reqs'[r].pc = "done"
         /\ workers[reqs[r].workerId].status = "online"
         /\ workers[reqs[r].workerId].currentJobs <
              workers[reqs[r].workerId].maxConcurrentJobs )
       => IF reqs'[r].job # NoJob
          THEN /\ jobs'[reqs'[r].job].status = "running"
               /\ jobs'[reqs'[r].job].assignedWorker = reqs[r].workerId
               /\ workers'[reqs[r].workerId].currentJobs =
                    workers[reqs[r].workerId].currentJobs + 1
          ELSE UNCHANGED <<jobs, workers>>]_vars

\* C6: a completion or failure report for a running job releases its worker:
\* currentJobs one lower, totalJobsProcessed one higher, busy back to online
C6_ReportReleasesWorker ==
  [][\A j \in Stored, status \in {"completed", "failed"} :
       ( /\ jobs[j].status = "running"
         /\ jobs[j].assignedWorker # NoWorker
         /\ workers[jobs[j].assignedWorker].currentJobs > 0
         /\ updateJob(j, status, NoWorker) )
       => LET w == jobs[j].assignedWorker
          IN /\ jobs'[j].status = status
             /\ workers'[w].currentJobs = workers[w].currentJobs - 1
             /\ workers'[w].totalJobsProcessed = workers[w].totalJobsProcessed + 1
             /\ (workers[w].status = "busy" => workers'[w].status = "online")]_vars

\* C7: the worker auto-selection returns is, at the moment of selection, online,
\* below its capacity, and its priority range contains the job's priority
C7_AutoSelectsEligible ==
  [][\A r \in Reqs :
       (Selects(r) /\ reqs[r].workerId = NoWorker)
       => Eligible(Selected(r), jobs[reqs[r].job].priority)]_vars

\* auto-selection has chosen a worker for a job that the other worker, online
\* and idle, may not take
C7_Witness ==
  \E r \in Reqs, v \in Workers :
    /\ reqs[r].kind = "assign" /\ reqs[r].workerId = NoWorker /\ reqs[r].pc = "saveJob"
    /\ v # reqs[r].wdoc.identifier
    /\ workers[v].status = "online" /\ workers[v].currentJobs = 0
    /\ ~Eligible(workers[v], jobs[reqs[r].job].priority)

\* C8: no request is given a worker whose priority range does not contain the
\* priority of the job
C8_AssignedWithinPriorityRange ==
  \A r \in Reqs :
    (reqs[r].pc \in {"saveJob", "saveWorker"})
    => LET w == workers[reqs[r].wdoc.identifier]
           priority == jobs[reqs[r].job].priority
       IN w.priorityMin <= priority /\ priority <= w.priorityMax

\* C9: a pinned assignment to a worker that is not eligible returns null and
\* changes neither the job nor any worker
C9_PinnedIneligibleFails ==
  [][\A r \in Reqs :
       ( /\ reqs[r].kind = "assign" /\ reqs[r].workerId # NoWorker
         /\ reqs[r].pc = "findWorker"
         /\ ~Eligible(workers[reqs[r].workerId], jobs[reqs[r].job].priority)
         /\ reqs'[r] # reqs[r] )
       => /\ reqs'[r].pc = "done"
          /\ reqs'[r].wdoc = NoDoc
          /\ UNCHANGED <<jobs, workers>>]_vars

\* the claim's order: fewer current jobs, then higher success rate, then lower
\* average job duration
Preferred(a, b) ==
  \/ a.currentJobs < b.currentJobs
  \/ a.currentJobs = b.currentJobs /\ RatLess(b.successRate, a.successRate)
  \/ /\ a.currentJobs = b.currentJobs /\ a.successRate = b.successRate
     /\ RatLess(a.averageJobDuration, b.averageJobDuration)

\* C10: no eligible worker is preferred to the one auto-selection returns
C10_SelectsMinimum ==
  [][\A r \in Reqs :
       (Selects(r) /\ reqs[r].workerId = NoWorker)
       => \A v \in Workers :
            Eligible(workers[v], jobs[reqs[r].job].priority)
            => ~Preferred(workers[v], Selected(r))]_vars

\* auto-selection has chosen between two eligible workers with the same number
\* of current jobs and different success rates
C10_Witness ==
  \E r \in Reqs :
    /\ reqs[r].kind = "assign" /\ reqs[r].workerId = NoWorker /\ reqs[r].pc = "saveJob"
    /\ \A v \in Workers : Eligible(workers[v], jobs[reqs[r].job].priority)
    /\ workers["w1"].currentJobs = workers["w2"].currentJobs
    /\ workers["w1"].successRate # workers["w2"].successRate

C12_CancelReleasesWorker ==
  [][\A r \in Reqs :
       reqs[r].kind = "cancel" =>
         LET j == reqs[r].job
             w == reqs[r].jdoc.assignedWorker
             ends == reqs[r].pc # "done" /\ reqs'[r].pc = "done"
         IN /\ (reqs[r].pc = "cancelStatus" /\ reqs'[r].pc # "cancelStatus")
                 => jobs'[j].status = "cancelled"
            /\ ( /\ reqs[r].jdoc.status = "running" /\ w # NoWorker /\ ends
                 /\ workers[w].currentJobs > 0 )
                 => /\ reqs[r].pc = "saveReleased"
                    /\ workers'[w].currentJobs = workers[w].currentJobs - 1
                    /\ workers'[w].successRate =
                         RollingAverage(workers[w].successRate,
                                        workers[w].totalJobsProcessed + 1, 0)
                    /\ workers'[w].averageJobDuration =
                         RollingAverage(workers[w].averageJobDuration,
                                        workers[w].totalJobsProcessed + 1, 0)
            /\ (reqs[r].jdoc.status \in {"pending", "queued"}) => workers' = workers]_vars

\* C13: cancelling a job that is completed, failed or cancelled changes neither
\* the job nor any worker
C13_TerminalJobNotCancelled ==
  [][\A r \in Reqs :
       ( /\ reqs[r].kind = "cancel"
         /\ reqs[r].jdoc.status \in {"completed", "failed", "cancelled"} )
       => UNCHANGED <<jobs, workers>>]_vars

HeartbeatTooOld(id) ==
  workerRegistry[id] # NoEntry /\ now - workerRegistry[id].lastSeen > StaleAfter

\* C15: a status query answers offline for a worker whose last heartbeat is
\* older than the threshold and the last self-reported status otherwise: it
\* answers with the registry's status unless the heartbeat is too old, and the
\* registry's status only changes by a heartbeat or by a query that finds the
\* heartbeat too old
C15_StaleReportedOffline ==
  [][/\ \A r \in Reqs, id \in WorkerIds :
          (getWorkerStatus(r, id) /\ workerRegistry[id] # NoEntry)
          => reqs'[r].wdoc.status =
               IF HeartbeatTooOld(id) THEN "offline" ELSE workerRegistry[id].status
     /\ \A id \in WorkerIds :
          (workerRegistry[id] # NoEntry /\ workerRegistry'[id].status # workerRegistry[id].status)
          => \/ workerRegistry'[id].lastSeen = now
             \/ HeartbeatTooOld(id) /\ workerRegistry'[id].status = "offline"]_vars

\* a status query has answered offline for a worker whose heartbeat is too old
C15_Witness ==
  \E r \in Reqs :
    /\ reqs[r].kind = "status" /\ reqs[r].pc = "done"
    /\ HeartbeatTooOld(reqs[r].workerId)
    /\ reqs[r].wdoc.status = "offline"

\* C16: no assignment selects a worker whose last heartbeat is older than the
\* staleness threshold (and that has not been seen by the master since either)
C16_StaleNeverSelected ==
  [][\A r \in Reqs :
       Selects(r) => LET id == reqs'[r].wdoc.identifier
                     IN ~(HeartbeatTooOld(id) /\ now - workers[id].lastSeen > StaleAfter)]_vars

\* C17: a heartbeat from an id that is not a registered worker creates no
\* registry entry, and a job-pull with such an id changes no job and no worker
C17_UnknownWorkerRejected ==
  [][/\ \A status \in ReportedStatus :
          heartbeat(UnknownWorker, status) => workerRegistry'[UnknownWorker] = NoEntry
     /\ \A r \in Reqs :
          (reqs'[r].kind = "pull" /\ reqs'[r].workerId = UnknownWorker)
          => UNCHANGED <<jobs, workers>>]_vars

\* C18: every worker a registration answers with is offline and has no current
\* and no processed jobs
C18_RegisteredStartsOffline ==
  \A i \in 1..Len(issued) :
    /\ issued[i].status = "offline"
    /\ issued[i].currentJobs = 0
    /\ issued[i].totalJobsProcessed = 0

\* C19: no two registrations answer with the same identifier
C19_DistinctIdentifiers ==
  \A i, k \in 1..Len(issued) : i # k => issued[i].identifier # issued[k].identifier

\* C20: createJob returns a job with a new id that is queued when its type is
\* single and pending otherwise, with priority 5 when none is supplied and
\* the retry policy of 3 retries and 5000 ms; it changes no worker
C20_CreateJobDefaults ==
  [][\A r \in Reqs, type \in JobTypes, priority \in SuppliedPriority :
       createJob(r, ValidName, ValidUrl, type, priority)
       => LET j == reqs'[r].job
              returned == reqs'[r].jdoc
              status == IF type = "single" THEN "queued" ELSE "pending"
          IN /\ j \notin DOMAIN jobs /\ j \in DOMAIN jobs'
             /\ jobs'[j].status = status
             /\ returned.status = status
             /\ returned.priority = (IF priority = 0 THEN 5 ELSE priority)
             /\ returned.maxRetries = 3 /\ returned.retryDelay = 5000
             /\ workers' = workers]_vars

\* C21: createJob and POST /jobs with a missing name, a missing url or a
\* malformed url fail with an error and leave the stored jobs as they were
C21_InvalidInputRejected ==
  [][\A r \in Reqs :
       (reqs[r].pc = "idle" /\ reqs'[r].kind = "create") =>
         \A name \in Names, url \in Urls, type \in JobTypes,
            priority \in RequestedPriority :
           ( /\ name = << >> \/ url = << >> \/ url = MalformedUrl
             /\ \/ createJob(r, name, url, type, priority)
                \/ postJob(r, name, url, type, priority) )
           => /\ reqs'[r].pc = "done" /\ reqs'[r].error # "none"
              /\ reqs'[r].job = NoJob
              /\ jobs' = jobs]_vars

\* createJob has rejected a named job whose priority is in range for its
\* malformed url; nothing is stored
C21_Witness ==
  \E r \in Reqs :
    /\ reqs[r].kind = "create" /\ reqs[r].pc = "done"
    /\ reqs[r].error = "ValidationError"
    /\ reqs[r].jdoc.name = ValidName /\ reqs[r].jdoc.url = MalformedUrl
    /\ reqs[r].jdoc.priority \in MinPriority..MaxPriority
    /\ jobs = << >>

\* the nearest value of the range 1..10
Clamp(priority) == IF priority < 1 THEN 1 ELSE IF priority > 10 THEN 10 ELSE priority

\* C22: every stored job has a priority in 1..10; a creation or an update that
\* carries a priority outside the range stores the nearest bound
C22_PriorityClamped ==
  [][/\ \A j \in DOMAIN jobs' : 1 <= jobs'[j].priority /\ jobs'[j].priority <= 10
     /\ \A r \in Reqs :
          (reqs[r].pc = "idle" /\ reqs'[r].kind = "create") =>
            \A type \in JobTypes, priority \in RequestedPriority \ {0} :
              createJob(r, ValidName, ValidUrl, type, priority)
              => /\ reqs'[r].job \in DOMAIN jobs'
                 /\ jobs'[reqs'[r].job].priority = Clamp(priority)
     /\ \A j \in Stored, priority \in UpdatedPriority :
          updateJobPriority(j, priority) => jobs'[j].priority = Clamp(priority)]_vars

\* the number of successes among the completions reported so far
Successes == Cardinality({i \in 1..Len(outcomes) : outcomes[i]})

BatchItem(i) ==
  NewJob(batch.names[i + 1], batch.urls[i + 1], "scheduled",
         getVariation(batch.priorities, i, DefaultPriority))

\* C24: a batch of quantity q that has returned went through all q items:
\* totalCreated + errors.length = q, the errors are exactly the items createJob
\* rejects, every other item was created whatever failed before it, and every
\* job counted in totalCreated is stored under its id
C24_BatchProcessesAllItems ==
  batch.pc = "done" =>
    /\ Len(batch.createdJobs) + Len(batch.errors) = batch.quantity
    /\ \A i \in 0..(batch.quantity - 1) :
         (\E e \in DOMAIN batch.errors : batch.errors[e] = i + 1) <=> ~Validates(BatchItem(i))
    /\ \A c \in DOMAIN batch.createdJobs :
         /\ batch.createdJobs[c] \in DOMAIN jobs
         /\ jobs[batch.createdJobs[c]].type = "scheduled"
         /\ \A d \in DOMAIN batch.createdJobs : c # d => batch.createdJobs[c] # batch.createdJobs[d]

\* a batch of three whose second item was rejected and whose third item was
\* created after it
C24_Witness ==
  /\ batch.pc = "done" /\ batch.quantity = 3
  /\ batch.errors = <<2>>
  /\ Len(batch.createdJobs) = 2
  /\ batch.createdJobs[2] \in DOMAIN jobs
  /\ jobs[batch.createdJobs[2]].url = batch.urls[3]

\* the start number of a sequential pattern: the one given, 1 when none is
GivenStart(urlPattern) ==
  IF urlPattern.startNumber = Absent THEN 1 ELSE Get(urlPattern.startNumber)

\* C25: for a sequential url pattern with a pattern P that contains {number},
\* a start number s >= 0 (1 only when none is given) and quantity q, the batch
\* generates exactly P with s + i in place of {number} for i = 0..q-1, in order
C25_SequentialUrlsFromStart ==
  (/\ batch.pc # "idle"
   /\ batch.urlPattern.type = "sequential"
   /\ batch.urlPattern.pattern # Absent)
  => /\ Len(batch.urls) = batch.quantity
     /\ \A i \in 0..(batch.quantity - 1) :
          batch.urls[i + 1] =
            Replace(Get(batch.urlPattern.pattern), Placeholder,
                    ToString(GivenStart(batch.urlPattern) + i))

\* the batch takes its urls from a non-empty list, its names from a non-empty
\* list of custom names
FromUrlList(b) ==
  b.urlPattern.type = "list" /\ b.urlPattern.urls \notin {Absent, Some(<< >>)}
FromCustomNames(b) ==
  b.namePattern.type = "custom" /\ b.namePattern.customNames \notin {Absent, Some(<< >>)}

\* C26: with a non-empty url list L and with a non-empty list N of custom
\* names, item i (0-based) of a batch is generated, and its job stored, with
\* url L[i mod |L|] and name N[i mod |N|], also when the quantity exceeds the
\* length of the list
C26_ListsAreCycled ==
  [][/\ batch'.pc # "idle" =>
          \A i \in 0..(batch'.quantity - 1) :
            /\ FromUrlList(batch') =>
                 LET L == Get(batch'.urlPattern.urls)
                 IN batch'.urls[i + 1] = L[(i % Len(L)) + 1]
            /\ FromCustomNames(batch') =>
                 LET N == Get(batch'.namePattern.customNames)
                 IN batch'.names[i + 1] = N[(i % Len(N)) + 1]
     /\ (batch.pc = "loop" /\ batch'.i = batch.i + 1 /\ Len(jobs') = Len(jobs) + 1) =>
          LET i == batch.i
              job == jobs'[Len(jobs')]
          IN /\ FromUrlList(batch) =>
                  LET L == Get(batch.urlPattern.urls)
                  IN job.url = L[(i % Len(L)) + 1]
             /\ FromCustomNames(batch) =>
                  LET N == Get(batch.namePattern.customNames)
                  IN job.name = N[(i % Len(N)) + 1]]_vars

\* a batch of three over a list of two urls and two custom names: the third
\* job was stored with the first url and the first name
C26_Witness ==
  /\ batch.pc = "done" /\ batch.quantity = 3
  /\ FromUrlList(batch) /\ Len(Get(batch.urlPattern.urls)) = 2
  /\ FromCustomNames(batch) /\ Len(Get(batch.namePattern.customNames)) = 2
  /\ Len(batch.createdJobs) = 3
  /\ batch.createdJobs[3] \in DOMAIN jobs
  /\ jobs[batch.createdJobs[3]].url = Get(batch.urlPattern.urls)[1]
  /\ jobs[batch.createdJobs[3]].name = Get(batch.namePattern.customNames)[1]

\* C27: a createJobWithAI call whose input is valid, and so has stored its
\* job, has not failed and has not left the job failed, and the scenario
\* generateScenario returned to it has at least one step whatever the upstream
\* call came to
C27_GenerationNeverFailsJob ==
  (ai.called /\ ai.job # NoJob) =>
    /\ ai.error = "none"
    /\ ai.job \in DOMAIN jobs /\ jobs[ai.job].status # "failed"
    /\ ai.useAI => ai.generated >= 1

\* C29: a job that is pending or queued has no assignedWorker, and a step that
\* writes a worker into assignedWorker leaves the job running
C29_UnstartedJobUnassigned ==
  [][\A j \in DOMAIN jobs' :
       /\ jobs'[j].status \in {"pending", "queued"} => jobs'[j].assignedWorker = NoWorker
       /\ ( /\ j \in DOMAIN jobs
            /\ jobs'[j].assignedWorker # jobs[j].assignedWorker
            /\ jobs'[j].assignedWorker # NoWorker )
          => jobs'[j].status = "running"]_vars

\* the jobs assigned to worker w that have not ended
Held(w) ==
  {j \in Stored : /\ jobs[j].assignedWorker = w
                  /\ jobs[j].status \notin {"completed", "failed", "cancelled"}}

\* C30: whenever no handler is in progress, each worker's currentJobs is the
\* number of jobs assigned to it that have not reached completed, failed or
\* cancelled
C30_CurrentJobsCountsHeld ==
  Quiet => \A w \in Workers : workers[w].currentJobs = Cardinality(Held(w))

\* another queued job competes with job j
Competes(j) == \E k \in Stored : k # j /\ jobs[k].status = "queued"

\* job j has been handed out: a poll in flight has found it, a worker process
\* is executing it, or it carries an assignment
Handed(j) ==
  \/ jobs[j].assignedWorker # NoWorker
  \/ \E r \in Reqs : reqs[r].kind = "pull" /\ reqs[r].job = j
  \/ \E w \in Workers : \E e \in executing[w].calls : e.job = j

C31_PullHandsOnlyAssignedJob ==
  [][\A r \in Reqs :
       ( /\ reqs[r].kind = "pull"
         /\ reqs[r].pc # "done" /\ reqs'[r].pc = "done"
         /\ reqs'[r].job # NoJob )
       => /\ reqs[r].pc = "saveWorker"
          /\ jobs'[reqs'[r].job].assignedWorker = reqs'[r].workerId]_vars

\* C32: execution.attempts counts the transitions into running: a step that
\* takes a job into running adds one to it, a start reported by a worker
\* included, and no other step changes it
C32_AttemptsCountStarts ==
  [][\A j \in Stored :
       IF jobs[j].status # "running" /\ jobs'[j].status = "running"
       THEN jobs'[j].attempts = jobs[j].attempts + 1
       ELSE jobs'[j].attempts = jobs[j].attempts]_vars

\* C33: a worker that is online or busy is busy exactly when its currentJobs
\* has reached maxConcurrentJobs, whatever assignments, completions and status
\* updates of the worker process came before
C33_BusyExactlyAtCapacity ==
  \A w \in Workers :
    workers[w].status \in {"online", "busy"} =>
      (workers[w].status = "busy"
         <=> workers[w].currentJobs >= workers[w].maxConcurrentJobs)

\* the jobs worker w has pulled and not finished
Pulled(w) == {e.job : e \in executing[w].calls}

\* C34: at no moment has a worker process more than maxConcurrentJobs jobs
\* that it has pulled and not yet finished
C34_ExecutesWithinCapacity ==
  \A w \in Workers : Cardinality(Pulled(w)) <= workers[w].maxConcurrentJobs

\* the step belongs to a job-pull handler, or is heartbeat processing, a
\* status query (staleness detection) or the passing of time
MasterSideStep ==
  \/ \E r \in Reqs : reqs'[r] # reqs[r] /\ "pull" \in {reqs[r].kind, reqs'[r].kind}
  \/ ~UNCHANGED heartbeatVars

\* C35: heartbeat processing, staleness detection and job-pull leave the
\* status and the assignment of every running job as they are, also when the
\* job's worker has gone stale
C35_RunningJobOnlyMovedExplicitly ==
  [][MasterSideStep =>
       \A j \in Stored :
         jobs[j].status = "running" =>
           /\ jobs'[j].status = "running"
           /\ jobs'[j].assignedWorker = jobs[j].assignedWorker]_vars

\* the queued jobs worker w may take: unassigned or assigned to w, with a
\* priority within the range of w
Takeable(w) ==
  {j \in Stored : /\ jobs[j].status = "queued"
                  /\ jobs[j].assignedWorker \in {NoWorker, w}
                  /\ workers[w].priorityMin <= jobs[j].priority
                  /\ jobs[j].priority <= workers[w].priorityMax}

\* C36: the job a job-pull finds for a worker is one the worker may take, no
\* takeable job has a higher priority, and no takeable job of the same
\* priority was created earlier
C36_PullReturnsBestJob ==
  [][\A r \in Reqs :
       (reqs[r].pc = "findJob" /\ reqs'[r].pc = "findWorker") =>
         LET j == reqs'[r].job
             S == Takeable(reqs[r].workerId)
         IN /\ j \in S
            /\ \A k \in S :
                 /\ jobs[k].priority <= jobs[j].priority
                 /\ (jobs[k].priority = jobs[j].priority => j <= k)]_vars

\* a job-pull has found a job although an earlier job of lower priority and a
\* later job of the same priority were takeable too
C36_Witness ==
  \E r \in Reqs :
    /\ reqs[r].kind = "pull" /\ reqs[r].pc = "findWorker"
    /\ \E k, l \in Takeable(reqs[r].workerId) :
         /\ k < reqs[r].job /\ jobs[k].priority < jobs[reqs[r].job].priority
         /\ reqs[r].job < l /\ jobs[l].priority = jobs[reqs[r].job].priority

\* C37: the completeJob call of a handler leaves a worker that is offline, in
\* maintenance or in error with a status other than online
C37_CompleteJobKeepsUnavailable ==
  [][\A r \in Reqs, w \in Workers :
       ( /\ reqs[r].pc = "saveReleased" /\ reqs'[r].pc = "done"
         /\ reqs[r].wdoc.identifier = w
         /\ workers[w].status \in {"offline", "maintenance", "error"} )
       => workers'[w].status # "online"]_vars

\* a request for a retry begins in this step
RetryArrives(r) == reqs[r].pc = "idle" /\ reqs'[r].kind \in {"retry", "retryRejected"}

\* C38: a retry of a job that is not failed is answered with false at once and
\* leaves every job and every worker as they were; no step of a retry takes a
\* job out of cancelled
C38_RetryOnlyFailed ==
  [][\A r \in Reqs :
       /\ (RetryArrives(r) /\ reqs'[r].job \in Stored
             /\ jobs[reqs'[r].job].status # "failed")
            => /\ reqs'[r].kind = "retryRejected" /\ reqs'[r].pc = "done"
               /\ jobs' = jobs /\ workers' = workers
       /\ (reqs'[r] # reqs[r] /\ "retry" \in {reqs[r].kind, reqs'[r].kind})
            => \A j \in Stored :
                 jobs[j].status = "cancelled" => jobs'[j] = jobs[j]]_vars

\* a retry of a cancelled job that carries a worker has been answered with false
C38_Witness ==
  \E r \in Reqs :
    /\ reqs[r].kind = "retryRejected" /\ reqs[r].pc = "done"
    /\ reqs[r].job \in Stored
    /\ jobs[reqs[r].job].status = "cancelled"
    /\ jobs[reqs[r].job].assignedWorker # NoWorker

\* C39: the health score of a heartbeat is an integer from 0 to 100, and it is
\* 0 when the reported status is offline, whatever the metrics are
C39_HealthScoreBounded ==
  calculated # Absent =>
    /\ Get(calculated).healthScore \in 0..100
    /\ Get(calculated).worker.status = "offline" => Get(calculated).healthScore = 0

\* an offline worker has been scored whose load and success rate carry no
\* penalty at all
C39_Witness ==
  /\ calculated # Absent
  /\ Get(calculated).worker.status = "offline"
  /\ ResourceScore(Get(calculated).worker) = 10000
====
